---- MODULE Spec2Model ----
(***************************************************************************)
(* A model of the two command-line entry points of the GCP cost analyzer:  *)
(*   scripts/calculate_costs.py (the pricing engine) and                   *)
(*   scripts/validate_data.py   (the completeness validator).              *)
(*                                                                         *)
(* Representation.                                                         *)
(*  - A metric value is a record [tag, val]: tag "absent" (the key is not  *)
(*    in the metrics object), "null" (the key is there with JSON null) or *)
(*    "num" (val is the number).                                           *)
(*  - Count metrics are integers.  Byte metrics are carried in MiB (the    *)
(*    inputs are whole numbers of MiB), so bytes / 1024**3 is              *)
(*    mib / MiBPerGiB and bytes / 1024**4 is mib / MiBPerTiB.              *)
(*  - Money is carried in cents as an exact fraction [n, d]; round(x, 2)   *)
(*    is Round2, the round-half-to-even of the fraction to whole cents.    *)
(*    The input values are multiples of steps for which no cost is an      *)
(*    exact half cent, where the binary float of the code and the exact    *)
(*    fraction could round differently.                                    *)
(*  - A timestamp string is a record of its form (absent, empty, garbage,  *)
(*    naive, with a "Z" suffix, with a numeric offset) and of the fields   *)
(*    datetime.fromisoformat reads from it.                                *)
(***************************************************************************)
EXTENDS Integers, Sequences, FiniteSets, TLC

VARIABLES doc, days, priceOut, valOut

vars == <<doc, days, priceOut, valOut>>

(***************************************************************************)
(* Bounds of the model.                                                    *)
(***************************************************************************)
\* a numeric metric is k steps of its key, k in -1 .. MaxUnits
MaxUnits == 3
\* period_days ranges over -1 .. MaxDays
MaxDays == 2
\* the day-of-month of a timestamp ranges over 1 .. MaxDayOfMonth
MaxDayOfMonth == 2

(***************************************************************************)
(* Metric keys.                                                            *)
(***************************************************************************)
FS_READS   == "firestore.googleapis.com/document/read_count"
FS_WRITES  == "firestore.googleapis.com/document/write_count"
FS_DELETES == "firestore.googleapis.com/document/delete_count"
FS_STORAGE == "firestore.googleapis.com/storage/total_bytes"
RT_SENT    == "firebasedatabase.googleapis.com/network/monthly_sent"
RT_STORAGE == "firebasedatabase.googleapis.com/storage/total_bytes"
RT_HITS    == "firebasedatabase.googleapis.com/network/api_hits_count"
FN_EXECS   == "cloudfunctions.googleapis.com/function/execution_count"
FN_TIMES   == "cloudfunctions.googleapis.com/function/execution_times"
FN_ACTIVE  == "cloudfunctions.googleapis.com/function/active_instances"
BQ_STORED  == "bigquery.googleapis.com/storage/stored_bytes"
BQ_COUNT   == "bigquery.googleapis.com/query/count"
BQ_SCANNED == "bigquery.googleapis.com/query/scanned_bytes"
ST_BYTES   == "storage.googleapis.com/storage/total_bytes"
ST_SENT    == "storage.googleapis.com/network/sent_bytes_count"
ST_REQS    == "storage.googleapis.com/api/request_count"
CR_REQS    == "run.googleapis.com/request_count"
CR_INST    == "run.googleapis.com/container/instance_count"
CR_TIME    == "run.googleapis.com/container/billable_instance_time"

\* validate_data.py: the expected metrics per service, in order
SERVICE_METRICS ==
  [s \in {"firestore", "rtdb", "functions", "bigquery", "storage", "cloudrun"} |->
     CASE s = "firestore" -> <<FS_READS, FS_WRITES, FS_DELETES, FS_STORAGE>>
       [] s = "rtdb"      -> <<RT_SENT, RT_STORAGE, RT_HITS>>
       [] s = "functions" -> <<FN_EXECS, FN_TIMES, FN_ACTIVE>>
       [] s = "bigquery"  -> <<BQ_STORED, BQ_COUNT, BQ_SCANNED>>
       [] s = "storage"   -> <<ST_BYTES, ST_SENT, ST_REQS>>
       [] s = "cloudrun"  -> <<CR_REQS, CR_INST, CR_TIME>>]

(***************************************************************************)
(* Pricing constants of calculate_costs.py.  Prices are in cents.          *)
(***************************************************************************)
MiBPerGiB            == 1024
MiBPerTiB            == MiBPerGiB * MiBPerGiB
FreeReadsPerDay      == 50000
FreeWritesPerDay     == 20000
FreeDeletesPerDay    == 20000
FlowPriceUnit        == 100000
ReadCents            == 6
WriteCents           == 18
DeleteCents          == 2
FirestoreGiBCents    == 18
FreeStorageGiB       == 1
RtdbFreeBandwidthGiB == 10
RtdbStorageCents     == 500
RtdbBandwidthCents   == 100
InvocationPriceUnit  == 1000000
InvocationCents      == 40
BqStorageGiBCents    == 2
BqScanTiBCents       == 500
SecondsPerDay        == 86400

(***************************************************************************)
(* Arithmetic: exact fractions and Python's round().                       *)
(***************************************************************************)
RECURSIVE GCD(_, _)
GCD(a, b) == IF b = 0 THEN a ELSE GCD(b, a % b)

LCM(a, b) == (a \div GCD(a, b)) * b

Frac(n, d) == [n |-> n, d |-> d]

FAdd(x, y) ==
  LET d == LCM(x.d, y.d)
  IN  Frac(x.n * (d \div x.d) + y.n * (d \div y.d), d)

\* the last cost left out of the total
SumCostsDropLast(costs) ==
  IF costs = <<>> THEN Frac(0, 1)
  ELSE IF Len(costs) = 1 THEN costs[1]
  ELSE LET a == costs[1]
           b == IF Len(costs) > 2 THEN costs[2] ELSE Frac(0, 1)
           c == IF Len(costs) > 3 THEN costs[3] ELSE Frac(0, 1)
       IN  FAdd(FAdd(a, b), c)

\* total = cost_1 + ... + cost_n, the unrounded costs added up
RECURSIVE SumCosts(_)
SumCosts(costs) ==
  IF costs = <<>> THEN Frac(0, 1)
  ELSE FAdd(SumCosts(SubSeq(costs, 1, Len(costs) - 1)), costs[Len(costs)])

\* round(n / d) to the nearest integer, ties to even (d > 0)
RoundHalfEven(n, d) ==
  LET q == n \div d
      r == n % d
  IN  IF 2 * r < d THEN q
      ELSE IF 2 * r > d THEN q + 1
      ELSE IF q % 2 = 0 THEN q ELSE q + 1

\* round(x, 2) of an amount of cents x: whole cents
Round2(x) == RoundHalfEven(x.n, x.d)

\* the clamp left out: raw - free
BillableUnclamped(raw, free) == raw - free

\* max(0, raw - free), both whole numbers of the same unit
Billable(raw, free) == IF raw - free > 0 THEN raw - free ELSE 0

\* the cap left out: the raw usage is priced as saved
FreePartUncapped(raw, free) == raw

\* min(raw, free)
FreePart(raw, free) == IF raw < free THEN raw ELSE free

(***************************************************************************)
(* Metric values and the metrics object.                                   *)
(***************************************************************************)
Num(v)  == [tag |-> "num", val |-> v]
Null    == [tag |-> "null", val |-> 0]
Absent  == [tag |-> "absent", val |-> 0]

\* key in metrics
HasKey(metrics, key) == key \in DOMAIN metrics /\ metrics[key].tag # "absent"

\* metrics.get(key, 0): the default stands in for an absent key only
MetricGet(metrics, key) == IF HasKey(metrics, key) THEN metrics[key] ELSE Num(0)

\* a value Python's arithmetic and int() raise TypeError on
IsNone(v) == v.tag = "null"

(***************************************************************************)
(* calculate_costs.py: the four formulas.  Each returns                    *)
(* [raised, breakdown]: raised is TRUE when the code raises TypeError, and *)
(* then there is no CostBreakdown.                                         *)
(***************************************************************************)
NoBreakdown == [service |-> "", total_cost |-> 0, components |-> <<>>,
                free_tier_savings |-> 0, billable_usage |-> <<>>,
                pricing_notes |-> <<>>]

Raised == [raised |-> TRUE, breakdown |-> NoBreakdown]

Returned(b) == [raised |-> FALSE, breakdown |-> b]

calculate_firestore_costs(metrics, d) ==
  LET reads         == MetricGet(metrics, FS_READS)
      writes        == MetricGet(metrics, FS_WRITES)
      deletes       == MetricGet(metrics, FS_DELETES)
      storage_bytes == MetricGet(metrics, FS_STORAGE)
  IN  IF IsNone(reads) \/ IsNone(writes) \/ IsNone(deletes) \/ IsNone(storage_bytes)
      THEN Raised
      ELSE
        LET storage_mib      == storage_bytes.val
            free_reads       == FreeReadsPerDay * d
            free_writes      == FreeWritesPerDay * d
            free_deletes     == FreeDeletesPerDay * d
            free_storage_mib == FreeStorageGiB * MiBPerGiB
            billable_reads   == Billable(reads.val, free_reads)
            billable_writes  == Billable(writes.val, free_writes)
            billable_deletes == Billable(deletes.val, free_deletes)
            billable_storage == Billable(storage_mib, free_storage_mib)
            read_cost        == Frac(billable_reads * ReadCents, FlowPriceUnit)
            write_cost       == Frac(billable_writes * WriteCents, FlowPriceUnit)
            delete_cost      == Frac(billable_deletes * DeleteCents, FlowPriceUnit)
            storage_cost     == Frac(billable_storage * FirestoreGiBCents, MiBPerGiB)
            total            == SumCosts(<<read_cost, write_cost, delete_cost,
                                           storage_cost>>)
            free_savings ==
              SumCosts(<<
                Frac(FreePart(reads.val, free_reads) * ReadCents, FlowPriceUnit),
                Frac(FreePart(writes.val, free_writes) * WriteCents, FlowPriceUnit),
                Frac(FreePart(deletes.val, free_deletes) * DeleteCents, FlowPriceUnit),
                Frac(FreePart(storage_mib, free_storage_mib) * FirestoreGiBCents,
                     MiBPerGiB)>>)
        IN  Returned(
              [service |-> "firestore",
               total_cost |-> Round2(total),
               components |-> [reads   |-> Round2(read_cost),
                               writes  |-> Round2(write_cost),
                               deletes |-> Round2(delete_cost),
                               storage |-> Round2(storage_cost)],
               free_tier_savings |-> Round2(free_savings),
               billable_usage |->
                 [reads       |-> billable_reads,
                  writes      |-> billable_writes,
                  deletes     |-> billable_deletes,
                  \* round(billable_storage, 2), in hundredths of a GiB
                  storage_gib |-> RoundHalfEven(billable_storage * 100, MiBPerGiB)],
               pricing_notes |->
                 << <<"Total reads", reads.val, billable_reads, free_reads>>,
                    <<"Total writes", writes.val, billable_writes, free_writes>>,
                    <<"Total deletes", deletes.val, billable_deletes, free_deletes>>,
                    <<"Storage", RoundHalfEven(storage_mib * 100, MiBPerGiB),
                      RoundHalfEven(billable_storage * 100, MiBPerGiB),
                      FreeStorageGiB>> >>])

calculate_rtdb_costs(metrics, d) ==
  LET storage_bytes   == MetricGet(metrics, RT_STORAGE)
      bandwidth_bytes == MetricGet(metrics, RT_SENT)
      api_hits        == MetricGet(metrics, RT_HITS)
  IN  IF IsNone(storage_bytes) \/ IsNone(bandwidth_bytes) \/ IsNone(api_hits)
      THEN Raised
      ELSE
        LET storage_mib        == storage_bytes.val
            bandwidth_mib      == bandwidth_bytes.val
            free_storage_mib   == FreeStorageGiB * MiBPerGiB
            free_bandwidth_mib == RtdbFreeBandwidthGiB * MiBPerGiB
            billable_storage   == Billable(storage_mib, free_storage_mib)
            billable_bandwidth == Billable(bandwidth_mib, free_bandwidth_mib)
            storage_cost   == Frac(billable_storage * RtdbStorageCents, MiBPerGiB)
            bandwidth_cost == Frac(billable_bandwidth * RtdbBandwidthCents, MiBPerGiB)
            total          == SumCosts(<<storage_cost, bandwidth_cost>>)
            free_savings ==
              SumCosts(<<
                Frac(FreePart(storage_mib, free_storage_mib) * RtdbStorageCents,
                     MiBPerGiB),
                Frac(FreePart(bandwidth_mib, free_bandwidth_mib) * RtdbBandwidthCents,
                     MiBPerGiB)>>)
        IN  Returned(
              [service |-> "rtdb",
               total_cost |-> Round2(total),
               components |-> [storage   |-> Round2(storage_cost),
                               bandwidth |-> Round2(bandwidth_cost)],
               free_tier_savings |-> Round2(free_savings),
               billable_usage |->
                 [storage_gb   |-> RoundHalfEven(billable_storage * 100, MiBPerGiB),
                  bandwidth_gb |-> RoundHalfEven(billable_bandwidth * 100, MiBPerGiB),
                  api_hits     |-> api_hits.val],
               pricing_notes |->
                 << <<"Storage", RoundHalfEven(storage_mib * 100, MiBPerGiB),
                      RoundHalfEven(billable_storage * 100, MiBPerGiB), FreeStorageGiB>>,
                    <<"Bandwidth", RoundHalfEven(bandwidth_mib * 100, MiBPerGiB),
                      RoundHalfEven(billable_bandwidth * 100, MiBPerGiB),
                      RtdbFreeBandwidthGiB>>,
                    <<"API hits", api_hits.val>> >>])

calculate_functions_costs(metrics, d) ==
  LET executions == MetricGet(metrics, FN_EXECS)
  IN  IF IsNone(executions)
      THEN Raised
      ELSE
        LET invocation_cost == Frac(executions.val * InvocationCents, InvocationPriceUnit)
        IN  Returned(
              [service |-> "functions",
               total_cost |-> Round2(invocation_cost),
               components |-> [invocations |-> Round2(invocation_cost)],
               free_tier_savings |-> 0,
               billable_usage |-> [executions |-> executions.val],
               pricing_notes |->
                 << <<"Executions", executions.val>>,
                    <<"WARNING: This is approximate">>,
                    <<"Memory allocation">>, <<"CPU time">>, <<"Network egress">>,
                    <<"Always-on instances">>,
                    <<"Check Cloud Functions billing">> >>])

calculate_bigquery_costs(metrics, d) ==
  LET stored_bytes  == MetricGet(metrics, BQ_STORED)
      query_count   == MetricGet(metrics, BQ_COUNT)
      scanned_bytes == MetricGet(metrics, BQ_SCANNED)
  IN  IF IsNone(stored_bytes) \/ IsNone(query_count) \/ IsNone(scanned_bytes)
      THEN Raised
      ELSE
        LET stored_mib   == stored_bytes.val
            scanned_mib  == scanned_bytes.val
            \* stored_tb * 1024 * 0.02
            storage_cost == Frac(stored_mib * BqStorageGiBCents, MiBPerGiB)
            \* scanned_tb * 5.00
            query_cost   == Frac(scanned_mib * BqScanTiBCents, MiBPerTiB)
            total        == SumCosts(<<storage_cost, query_cost>>)
        IN  Returned(
              [service |-> "bigquery",
               total_cost |-> Round2(total),
               components |-> [storage |-> Round2(storage_cost),
                               queries |-> Round2(query_cost)],
               free_tier_savings |-> 0,
               billable_usage |->
                 \* round(x, 3), in thousandths of a TB
                 [stored_tb   |-> RoundHalfEven(stored_mib * 1000, MiBPerTiB),
                  scanned_tb  |-> RoundHalfEven(scanned_mib * 1000, MiBPerTiB),
                  query_count |-> query_count.val],
               pricing_notes |->
                 << <<"Storage", RoundHalfEven(stored_mib * 1000, MiBPerTiB)>>,
                    <<"Queries", query_count.val,
                      RoundHalfEven(scanned_mib * 1000, MiBPerTiB)>>,
                    <<"First 10 GB of queries per month are free">> >>])

(***************************************************************************)
(* validate_data.py: validate_metrics.                                     *)
(***************************************************************************)
\* a zero value counted as missing
ClassifyZeroMissing(metrics, key) ==
  IF ~HasKey(metrics, key) THEN "MISSING"
  ELSE IF metrics[key].tag = "null" THEN "NULL"
  ELSE IF metrics[key].val = 0 THEN "MISSING"
  ELSE "OK"

\* the null test left out
ClassifyNullOk(metrics, key) ==
  IF ~HasKey(metrics, key) THEN "MISSING"
  ELSE IF metrics[key].tag = "num" /\ metrics[key].val = 0 THEN "ZERO"
  ELSE "OK"

\* the branch of the loop body a required key takes
Classify(metrics, key) ==
  IF ~HasKey(metrics, key) THEN "MISSING"
  ELSE IF metrics[key].tag = "null" THEN "NULL"
  ELSE IF metrics[key].val = 0 THEN "ZERO"
  ELSE "OK"

IsMissingEntry(e) == e[1] \in {"MISSING", "NULL"}

IsWarningEntry(e) == e[1] = "ZERO"

\* int((1 - n_missing / n_expected) * 100); for the schema lengths of
\* SERVICE_METRICS (3 and 4) the float expression truncates to this quotient
Score(n_missing, n_expected) ==
  IF n_missing = 0 THEN 100
  ELSE ((n_expected - n_missing) * 100) \div n_expected

\* SERVICE_METRICS.get(service, [])
Expected(service) ==
  IF service \in DOMAIN SERVICE_METRICS THEN SERVICE_METRICS[service] ELSE <<>>

validate_metrics(metrics, service) ==
  LET expected == Expected(service)
  IN  IF expected = <<>>
      THEN [score |-> 0, missing |-> << <<"Unknown service", service>> >>,
            warnings |-> <<>>]
      ELSE
        LET entries  == [i \in 1..Len(expected) |->
                           <<Classify(metrics, expected[i]), expected[i]>>]
            missing  == SelectSeq(entries, IsMissingEntry)
            warnings == SelectSeq(entries, IsWarningEntry)
        IN  [score |-> Score(Len(missing), Len(expected)),
             missing |-> missing, warnings |-> warnings]

(***************************************************************************)
(* validate_data.py: validate_date_range.                                  *)
(***************************************************************************)
Stamp(form, day, sec, off) == [form |-> form, day |-> day, sec |-> sec, off |-> off]

AbsentStamp  == Stamp("absent", 1, 0, 0)
EmptyStamp   == Stamp("empty", 1, 0, 0)
GarbageStamp == Stamp("garbage", 1, 0, 0)

\* data.get(field, ""): an absent field reads as the empty string
DateGet(s) == IF s.form = "absent" THEN EmptyStamp ELSE s

\* not s
IsEmptyString(s) == s.form = "empty"

\* datetime.fromisoformat(s.replace("Z", "+00:00")): a "Z" suffix becomes the
\* offset +00:00; a string with an offset parses to an aware datetime, one
\* without to a naive one; anything else raises ValueError
ParseStamp(s) ==
  CASE s.form = "naive"  -> [ok |-> TRUE, aware |-> FALSE, day |-> s.day,
                             local |-> (s.day - 1) * SecondsPerDay + s.sec, off |-> 0]
    [] s.form = "zulu"   -> [ok |-> TRUE, aware |-> TRUE, day |-> s.day,
                             local |-> (s.day - 1) * SecondsPerDay + s.sec, off |-> 0]
    [] s.form = "offset" -> [ok |-> TRUE, aware |-> TRUE, day |-> s.day,
                             local |-> (s.day - 1) * SecondsPerDay + s.sec,
                             off |-> s.off]
    [] OTHER             -> [ok |-> FALSE, aware |-> FALSE, day |-> 0,
                             local |-> 0, off |-> 0]

\* the instant two datetimes of the same kind are compared and subtracted by
Instant(dt) == IF dt.aware THEN dt.local - dt.off ELSE dt.local

\* end_dt <= start_dt and end_dt - start_dt raise TypeError for a naive and
\* an aware datetime
Comparable(a, b) == a.aware = b.aware

\* end_dt <= start_dt
NotAfter(start_dt, end_dt) == Instant(end_dt) <= Instant(start_dt)

\* <= in place of <
TooShortInclusive(start_dt, end_dt) ==
  Instant(end_dt) - Instant(start_dt) <= SecondsPerDay

\* delta.total_seconds() < 86400
TooShort(start_dt, end_dt) == Instant(end_dt) - Instant(start_dt) < SecondsPerDay

\* start_dt.day != 1
NotFirstOfMonth(start_dt) == start_dt.day # 1

Opt(cond, x) == IF cond THEN <<x>> ELSE <<>>

validate_date_range(data) ==
  LET start == DateGet(data.start_date)
      end   == DateGet(data.end_date)
  IN  IF IsEmptyString(start) \/ IsEmptyString(end)
      THEN <<"Missing start_date or end_date">>
      ELSE
        LET start_dt == ParseStamp(start)
            end_dt   == ParseStamp(end)
        IN  IF ~start_dt.ok \/ ~end_dt.ok \/ ~Comparable(start_dt, end_dt)
            THEN <<"Invalid date format">>
            ELSE Opt(NotAfter(start_dt, end_dt), "End date is not after start date")
                 \o Opt(TooShort(start_dt, end_dt), "Date range is very short")
                 \o Opt(NotFirstOfMonth(start_dt), "Start date is not first of month")

(***************************************************************************)
(* The entry points.                                                       *)
(***************************************************************************)
\* data.get("service", "unknown"); the field is a sequence of at most one tag
ServiceOf(data) == IF data.service = <<>> THEN "unknown" ELSE data.service[1]

\* calculate_costs.py main: the if/elif chain on the service tag
Dispatch(service, metrics, d) ==
  IF service = "firestore" THEN calculate_firestore_costs(metrics, d)
  ELSE IF service \in {"rtdb", "realtime-db", "firebase-db"}
       THEN calculate_rtdb_costs(metrics, d)
  ELSE IF service \in {"functions", "cloud-functions"}
       THEN calculate_functions_costs(metrics, d)
  ELSE calculate_bigquery_costs(metrics, d)

\* the last elif taken as an else: every other tag priced as bigquery
HasFormulaAlways(service) == TRUE

HasFormula(service) ==
  service \in {"firestore", "rtdb", "realtime-db", "firebase-db", "functions",
               "cloud-functions", "bigquery"}

NoResult == [breakdown |-> NoBreakdown, calculation_date |-> "", days_in_period |-> 0]

PriceNotRun == [ran |-> FALSE, exit |-> 0, emitted |-> FALSE, stderr |-> "",
                result |-> NoResult]

PricingMain(data, d) ==
  LET service == ServiceOf(data)
  IN  IF ~HasFormula(service)
      THEN [ran |-> TRUE, exit |-> 1, emitted |-> FALSE,
            stderr |-> "ERROR: Cost calculation not implemented for service",
            result |-> NoResult]
      ELSE
        LET r == Dispatch(service, data.metrics, d)
        IN  IF r.raised
            THEN [ran |-> TRUE, exit |-> 1, emitted |-> FALSE,
                  stderr |-> "TypeError", result |-> NoResult]
            ELSE [ran |-> TRUE, exit |-> 0, emitted |-> TRUE, stderr |-> "",
                  result |-> [breakdown |-> r.breakdown,
                              calculation_date |-> data.collection_time,
                              days_in_period |-> d]]

\* or in place of and
PassedEither(score, date_issues) == score = 100 \/ Len(date_issues) = 0

\* report["passed"]
Passed(score, date_issues) == score = 100 /\ Len(date_issues) = 0

\* the exit code of validate_data.py main
ExitCode(passed) == IF passed THEN 0 ELSE 1

\* validate_data.py main; validation_time, the wall clock, is left out
ValidationMain(data) ==
  LET service     == ServiceOf(data)
      m           == validate_metrics(data.metrics, service)
      date_issues == validate_date_range(data)
      passed      == Passed(m.score, date_issues)
  IN  [ran |-> TRUE, exit |-> ExitCode(passed), emitted |-> TRUE, stderr |-> "",
       report |-> [service |-> service,
                   project_id |-> data.project_id,
                   date_range |-> [start |-> data.start_date, end |-> data.end_date],
                   validation |-> [completeness_score |-> m.score,
                                   missing_metrics |-> m.missing,
                                   warnings |-> m.warnings,
                                   date_range_issues |-> date_issues],
                   passed |-> passed]]

NoReport == [service |-> "", project_id |-> "",
             date_range |-> [start |-> AbsentStamp, end |-> AbsentStamp],
             validation |-> [completeness_score |-> 0, missing_metrics |-> <<>>,
                             warnings |-> <<>>, date_range_issues |-> <<>>],
             passed |-> FALSE]

(***************************************************************************)
(* The input documents.                                                    *)
(***************************************************************************)
Tags == {"firestore", "rtdb", "realtime-db", "firebase-db", "functions",
         "cloud-functions", "bigquery", "storage", "cloudrun", "unknown"}

\* the service whose metric keys a document with this tag carries
Canonical(tag) ==
  CASE tag \in {"realtime-db", "firebase-db"} -> "rtdb"
    [] tag = "cloud-functions"                -> "functions"
    [] OTHER                                  -> tag

KeysOf(tag) ==
  LET keys == Expected(Canonical(tag))
  IN  {keys[i] : i \in 1..Len(keys)}

\* the step between two numeric values of a key
Step(key) ==
  CASE key = FS_READS   -> FreeReadsPerDay
    [] key = FS_WRITES  -> FreeWritesPerDay
    [] key = FS_DELETES -> FreeDeletesPerDay
    [] key \in {FS_STORAGE, RT_STORAGE} -> MiBPerGiB \div 2
    [] key = RT_SENT    -> (RtdbFreeBandwidthGiB \div 2) * MiBPerGiB
    [] key = FN_EXECS   -> InvocationPriceUnit \div 8
    [] key = BQ_STORED  -> MiBPerGiB \div 10
    [] key = BQ_SCANNED -> MiBPerGiB
    [] OTHER            -> 1

\* what a document holds for a key: nothing (-3), null (-2), or k steps
Choices == (-3)..MaxUnits

ValueAt(key, c) ==
  IF c = -3 THEN Absent
  ELSE IF c = -2 THEN Null
  ELSE Num(c * Step(key))

ValNotRun == [ran |-> FALSE, exit |-> 0, emitted |-> FALSE, stderr |-> "",
              report |-> NoReport]

Days == -1..MaxDays

HalfDay == SecondsPerDay \div 2

Hour == SecondsPerDay \div 24

Stamps ==
  {AbsentStamp, EmptyStamp, GarbageStamp}
  \cup {Stamp(f, d, s, 0) : f \in {"naive", "zulu"}, d \in 1..MaxDayOfMonth,
                            s \in {0, HalfDay}}
  \cup {Stamp("offset", d, s, Hour) : d \in 1..MaxDayOfMonth, s \in {0, HalfDay}}

\* a full period from the 1st, a period starting on the 2nd, and no dates
FewDates ==
  { <<Stamp("zulu", 1, 0, 0), Stamp("zulu", 2, 0, 0)>>,
    <<Stamp("zulu", 2, 0, 0), Stamp("zulu", 2, HalfDay, 0)>>,
    <<AbsentStamp, AbsentStamp>> }

Document(service, metrics, dates) ==
  [service |-> service, project_id |-> "project", metrics |-> metrics,
   start_date |-> dates[1], end_date |-> dates[2],
   collection_time |-> "collected"]

\* documents of every tag, with every combination of metric values
Docs ==
  UNION { { Document(<<tag>>, [k \in KeysOf(tag) |-> ValueAt(k, c[k])], dates) :
              c \in [KeysOf(tag) -> Choices], dates \in FewDates } : tag \in Tags }
  \cup { Document(<<>>, <<>>, dates) : dates \in FewDates }

\* documents with every pair of dates, the metrics complete or one missing
DateDocs ==
  { Document(<<"rtdb">>, [k \in KeysOf("rtdb") |-> ValueAt(k, c)],
             <<s, e>>) : c \in {-3, 1}, s \in Stamps, e \in Stamps }

TypeOK ==
  /\ days \in Int
  /\ priceOut.ran \in BOOLEAN
  /\ valOut.ran \in BOOLEAN

Init ==
  /\ doc \in Docs
  /\ days \in Days
  /\ priceOut = PriceNotRun
  /\ valOut = ValNotRun

InitDates ==
  /\ doc \in DateDocs
  /\ days \in Days
  /\ priceOut = PriceNotRun
  /\ valOut = ValNotRun

\* one run of calculate_costs.py on the document
RunPricing ==
  /\ ~priceOut.ran
  /\ priceOut' = PricingMain(doc, days)
  /\ UNCHANGED <<doc, days, valOut>>

\* one run of validate_data.py on the document
RunValidation ==
  /\ ~valOut.ran
  /\ valOut' = ValidationMain(doc)
  /\ UNCHANGED <<doc, days, priceOut>>

Next == RunPricing \/ RunValidation

Spec == Init /\ [][Next]_vars

SpecDates == InitDates /\ [][Next]_vars

(***************************************************************************)
(* The claims.                                                             *)
(***************************************************************************)
TheService == ServiceOf(doc)

\* the tags of the four modeled services, synonyms included
PricedTags == {"firestore", "rtdb", "realtime-db", "firebase-db", "functions",
               "cloud-functions", "bigquery"}

Breakdown == priceOut.result.breakdown

Validation == valOut.report.validation

\* the keys of the document's metrics that hold a number
NumericKeys == {k \in DOMAIN doc.metrics : doc.metrics[k].tag = "num"}

\* the metrics with 0 in place of every absent and every null value
ZeroFilled(metrics) ==
  [k \in DOMAIN metrics |-> IF metrics[k].tag = "num" THEN metrics[k] ELSE Num(0)]

\* the sum of the values of a record of cents
RECURSIVE SumOver(_, _)
SumOver(f, keys) ==
  IF keys = {} THEN 0
  ELSE LET k == CHOOSE x \in keys : TRUE
       IN  f[k] + SumOver(f, keys \ {k})

ComponentSum == SumOver(Breakdown.components, DOMAIN Breakdown.components)

Abs(x) == IF x < 0 THEN -x ELSE x

\* C1: for each modeled service, a metric key that is absent or null is
\* priced exactly as the same key with value 0: a CostBreakdown is emitted,
\* and it is the one the zero-filled document gets.
C1_MissingOrNullIsZero ==
  (priceOut.ran /\ TheService \in PricedTags) =>
     /\ priceOut.emitted
     /\ priceOut = PricingMain([doc EXCEPT !.metrics = ZeroFilled(doc.metrics)], days)

\* C2: passed is true iff completeness_score is 100 and date_range_issues is
\* empty, and the exit status of the validation is zero iff passed is true.
C2_PassedIffCompleteAndDated ==
  valOut.ran =>
     /\ valOut.emitted
     /\ valOut.report.passed <=>
          (Validation.completeness_score = 100 /\ Validation.date_range_issues = <<>>)
     /\ (valOut.exit = 0) <=> valOut.report.passed

C2_Witness ==
  /\ valOut.ran
  /\ valOut.report.passed
  /\ valOut.exit = 0

\* the required keys of the document's service, as a set
RequiredKeys == KeysOf(TheService)

EntryKeys(entries) == {entries[i][2] : i \in 1..Len(entries)}

\* C3: for a service of the schema table, completeness_score is 100 iff every
\* required key is present and not null; a required key whose value is 0
\* gets a warning entry, does not lower the score and gets no
\* missing_metrics entry.
C3_ScoreFullIffAllPresent ==
  (valOut.ran /\ TheService \in DOMAIN SERVICE_METRICS) =>
     LET zero == {k \in RequiredKeys : k \in NumericKeys /\ doc.metrics[k].val = 0}
     IN  /\ (Validation.completeness_score = 100) <=> (RequiredKeys \subseteq NumericKeys)
         /\ EntryKeys(Validation.warnings) = zero
         /\ Len(Validation.warnings) = Cardinality(zero)
         /\ EntryKeys(Validation.missing_metrics) = RequiredKeys \ NumericKeys
         /\ Len(Validation.missing_metrics) = Cardinality(RequiredKeys \ NumericKeys)

C3_Witness ==
  /\ valOut.ran
  /\ TheService \in DOMAIN SERVICE_METRICS
  /\ Validation.completeness_score = 100
  /\ Len(Validation.warnings) >= 2

NonNegativeBreakdown ==
  /\ Breakdown.total_cost >= 0
  /\ \A c \in DOMAIN Breakdown.components : Breakdown.components[c] >= 0
  /\ Breakdown.free_tier_savings >= 0

\* C4 as stated: every CostBreakdown has total_cost, every component and
\* free_tier_savings >= 0, for every numeric metric value, negative ones
\* included, and every integer period_days.
C4_NonNegativeForEveryInput == priceOut.emitted => NonNegativeBreakdown

\* C4 as amended: the three are >= 0 when every metric value is >= 0 and
\* period_days >= 0; for firestore and rtdb, whose usage is clamped,
\* total_cost and the components are >= 0 for every input.
C4_NonNegativeForNonNegativeInput ==
  priceOut.emitted =>
     /\ ((\A k \in NumericKeys : doc.metrics[k].val >= 0) /\ days >= 0)
          => NonNegativeBreakdown
     /\ Breakdown.service \in {"firestore", "rtdb"} =>
          /\ Breakdown.total_cost >= 0
          /\ \A c \in DOMAIN Breakdown.components : Breakdown.components[c] >= 0

C4_Witness ==
  /\ priceOut.emitted
  /\ \A k \in NumericKeys : doc.metrics[k].val >= 0
  /\ days >= 1
  /\ Breakdown.total_cost > 0
  /\ Breakdown.free_tier_savings > 0

PricingRefuses ==
  priceOut.ran =>
     /\ priceOut.exit # 0
     /\ ~priceOut.emitted
     /\ priceOut.stderr = "ERROR: Cost calculation not implemented for service"

ValidatorReportsUnknown ==
  valOut.ran =>
     /\ valOut.emitted
     /\ Validation.completeness_score = 0
     /\ Validation.missing_metrics = << <<"Unknown service", TheService>> >>
     /\ Validation.warnings = <<>>
     \* the date check has run: of the dates of FewDates, only the period
     \* from the 1st has no issue
     /\ (Validation.date_range_issues = <<>>) <=>
          (doc.start_date.form = "zulu" /\ doc.start_date.day = 1)
     /\ ~valOut.report.passed
     /\ valOut.exit # 0

\* C5 as stated: for every tag that is not one of the priced services, the
\* pricing refuses and the validator reports score 0 with the single
\* unknown-service entry, passed false and a non-zero exit.
C5_UnpricedTagIsUnknownToBoth ==
  TheService \notin PricedTags => (PricingRefuses /\ ValidatorReportsUnknown)

\* C5 as amended: the pricing refuses every tag it has no formula for; the
\* validator reports the unknown service for every tag that is not in its
\* own schema table.
C5_EachRefusesItsOwnUnknowns ==
  /\ TheService \notin PricedTags => PricingRefuses
  /\ TheService \notin DOMAIN SERVICE_METRICS => ValidatorReportsUnknown

C5_Witness ==
  /\ TheService \notin PricedTags
  /\ TheService \notin DOMAIN SERVICE_METRICS
  /\ priceOut.ran
  /\ valOut.ran
  /\ doc.start_date.form # "absent"

Synonyms == {"realtime-db", "firebase-db", "cloud-functions"}

\* C6: a document tagged with a synonym is priced and validated exactly as
\* the same document tagged "rtdb" (or "functions"): the same formula in
\* the pricing, the same required keys in the validator.
C6_SynonymsSelectTheSameFormulaAndSchema ==
  TheService \in Synonyms =>
     LET canonical == validate_metrics(doc.metrics, Canonical(TheService))
     IN  /\ priceOut.ran =>
              priceOut = PricingMain([doc EXCEPT !.service = <<Canonical(TheService)>>],
                                     days)
         /\ valOut.ran =>
              /\ Validation.completeness_score = canonical.score
              /\ Validation.missing_metrics = canonical.missing
              /\ Validation.warnings = canonical.warnings

\* the raw usage the pricing reads for a key of an emitted breakdown
Raw(key) == IF key \in NumericKeys THEN doc.metrics[key].val ELSE 0

\* the claim's billable usage and free part of a category
ClaimBillable(raw, allowance) == IF raw < allowance THEN 0 ELSE raw - allowance

ClaimFree(raw, allowance) == IF raw < allowance THEN raw ELSE allowance

\* one category of a breakdown against the claim: its component, and that
\* below the allowance nothing is billed
CategoryAsClaimed(component, raw, allowance, cents, unit) ==
  /\ component = RoundHalfEven(ClaimBillable(raw, allowance) * cents, unit)
  /\ raw < allowance => component = 0

\* C7: for every category with a free tier (firestore reads, writes and
\* deletes with the daily allowance times period_days, firestore storage
\* with a flat 1 GiB, rtdb storage with a flat 1 GB and bandwidth with a
\* flat 10 GB), usage below the allowance is billed 0, costs 0 and adds
\* raw x price to free_tier_savings; usage at or above it is billed
\* raw - allowance and adds allowance x price.
C7_FreeTierPerCategory ==
  /\ (priceOut.emitted /\ Breakdown.service = "firestore") =>
       LET reads   == Raw(FS_READS)
           writes  == Raw(FS_WRITES)
           deletes == Raw(FS_DELETES)
           storage == Raw(FS_STORAGE)
           gib     == FreeStorageGiB * MiBPerGiB
       IN  /\ Breakdown.billable_usage.reads
                = ClaimBillable(reads, FreeReadsPerDay * days)
           /\ Breakdown.billable_usage.writes
                = ClaimBillable(writes, FreeWritesPerDay * days)
           /\ Breakdown.billable_usage.deletes
                = ClaimBillable(deletes, FreeDeletesPerDay * days)
           /\ Breakdown.billable_usage.storage_gib
                = RoundHalfEven(ClaimBillable(storage, gib) * 100, MiBPerGiB)
           /\ CategoryAsClaimed(Breakdown.components.reads, reads,
                                FreeReadsPerDay * days, ReadCents, FlowPriceUnit)
           /\ CategoryAsClaimed(Breakdown.components.writes, writes,
                                FreeWritesPerDay * days, WriteCents, FlowPriceUnit)
           /\ CategoryAsClaimed(Breakdown.components.deletes, deletes,
                                FreeDeletesPerDay * days, DeleteCents, FlowPriceUnit)
           /\ CategoryAsClaimed(Breakdown.components.storage, storage, gib,
                                FirestoreGiBCents, MiBPerGiB)
           /\ Breakdown.free_tier_savings =
                Round2(FAdd(FAdd(FAdd(
                  Frac(ClaimFree(reads, FreeReadsPerDay * days) * ReadCents,
                       FlowPriceUnit),
                  Frac(ClaimFree(writes, FreeWritesPerDay * days) * WriteCents,
                       FlowPriceUnit)),
                  Frac(ClaimFree(deletes, FreeDeletesPerDay * days) * DeleteCents,
                       FlowPriceUnit)),
                  Frac(ClaimFree(storage, gib) * FirestoreGiBCents, MiBPerGiB)))
  /\ (priceOut.emitted /\ Breakdown.service = "rtdb") =>
       LET storage   == Raw(RT_STORAGE)
           bandwidth == Raw(RT_SENT)
           gib       == FreeStorageGiB * MiBPerGiB
           tengib    == RtdbFreeBandwidthGiB * MiBPerGiB
       IN  /\ Breakdown.billable_usage.storage_gb
                = RoundHalfEven(ClaimBillable(storage, gib) * 100, MiBPerGiB)
           /\ Breakdown.billable_usage.bandwidth_gb
                = RoundHalfEven(ClaimBillable(bandwidth, tengib) * 100, MiBPerGiB)
           /\ CategoryAsClaimed(Breakdown.components.storage, storage, gib,
                                RtdbStorageCents, MiBPerGiB)
           /\ CategoryAsClaimed(Breakdown.components.bandwidth, bandwidth, tengib,
                                RtdbBandwidthCents, MiBPerGiB)
           /\ Breakdown.free_tier_savings =
                Round2(FAdd(
                  Frac(ClaimFree(storage, gib) * RtdbStorageCents, MiBPerGiB),
                  Frac(ClaimFree(bandwidth, tengib) * RtdbBandwidthCents, MiBPerGiB)))

\* firestore reads below their allowance, writes above theirs
C7_Witness ==
  /\ priceOut.emitted
  /\ Breakdown.service = "firestore"
  /\ days >= 1
  /\ 0 < Raw(FS_READS)
  /\ Raw(FS_READS) < FreeReadsPerDay * days
  /\ Raw(FS_WRITES) > FreeWritesPerDay * days
  /\ Breakdown.components.writes > 0
  /\ Breakdown.free_tier_savings > 0

\* C8 as stated: total_cost is the sum of the rounded components; the two
\* do not differ by a cent or more.
C8_TotalIsSumOfComponents == priceOut.emitted => Breakdown.total_cost = ComponentSum

\* C8 as amended: total_cost, the rounding of the unrounded sum, is within
\* half a cent per component of the sum of the rounded components: equal
\* with one component, at most 1 cent apart with two, at most 2 with four.
C8_TotalWithinHalfCentPerComponent ==
  priceOut.emitted =>
     2 * Abs(Breakdown.total_cost - ComponentSum)
        <= Cardinality(DOMAIN Breakdown.components)

C8_Witness ==
  /\ priceOut.emitted
  /\ Breakdown.total_cost # ComponentSum

\* the claim's reading of a date string
ClaimMissing(s) == s.form \in {"absent", "empty"}

ClaimParses(s) == s.form \in {"naive", "zulu", "offset"}

ClaimInstant(s) == (s.day - 1) * SecondsPerDay + s.sec - s.off

\* one issue for each violated rule, in the order of the checks
RuleIssues(s, e) ==
  Opt(~(ClaimInstant(e) > ClaimInstant(s)), "End date is not after start date")
  \o Opt(~(ClaimInstant(e) - ClaimInstant(s) >= SecondsPerDay),
         "Date range is very short")
  \o Opt(s.day # 1, "Start date is not first of month")

SingleIssue(issues) ==
  /\ Len(issues) = 1
  /\ issues[1] \in {"Missing start_date or end_date", "Invalid date format"}

DatesFine(s, e) ==
  /\ ~ClaimMissing(s) /\ ~ClaimMissing(e)
  /\ ClaimParses(s) /\ ClaimParses(e)
  /\ ClaimInstant(e) > ClaimInstant(s)
  /\ ClaimInstant(e) - ClaimInstant(s) >= SecondsPerDay
  /\ s.day = 1

\* C9 as stated: exactly one issue and no further check when a bound is
\* missing, empty or unparseable; otherwise one issue per violated rule
\* (end not after start, span under 24 hours, start not on the 1st) and
\* nothing else; so no issue iff both bounds are present and parseable,
\* end > start, the span is at least 24 hours and the start is on the 1st.
C9_DateIssuesPerRule ==
  valOut.ran =>
     LET s      == doc.start_date
         e      == doc.end_date
         issues == Validation.date_range_issues
     IN  /\ IF ClaimMissing(s) \/ ClaimMissing(e) \/ ~ClaimParses(s) \/ ~ClaimParses(e)
            THEN SingleIssue(issues)
            ELSE issues = RuleIssues(s, e)
         /\ (issues = <<>>) <=> DatesFine(s, e)

\* exactly one of the two timestamps carries a UTC offset
MixedOffsets(s, e) ==
  /\ ClaimParses(s) /\ ClaimParses(e)
  /\ (s.form = "naive") # (e.form = "naive")

\* C9 as amended: two parseable bounds of which exactly one carries a UTC
\* offset cannot be compared, and get the single invalid-format issue too;
\* no issue iff the bounds are fine and not so mixed.
C9_DateIssuesPerRuleOrIncomparable ==
  valOut.ran =>
     LET s      == doc.start_date
         e      == doc.end_date
         issues == Validation.date_range_issues
     IN  /\ IF \/ ClaimMissing(s) \/ ClaimMissing(e)
               \/ ~ClaimParses(s) \/ ~ClaimParses(e)
               \/ MixedOffsets(s, e)
            THEN SingleIssue(issues)
            ELSE issues = RuleIssues(s, e)
         /\ (issues = <<>>) <=> (DatesFine(s, e) /\ ~MixedOffsets(s, e))

\* all three rules violated at once, by timestamps with different offsets
C9_Witness ==
  /\ valOut.ran
  /\ Len(Validation.date_range_issues) = 3
  /\ doc.start_date.form = "offset"
  /\ doc.end_date.form = "zulu"

ValidatedOnly == {"storage", "cloudrun"}

\* C10 as stated: a document the validator passes is priced, for any
\* period_days >= 1: the pricing emits a CostBreakdown.
C10_PassedIsPriced ==
  (valOut.ran /\ valOut.report.passed /\ priceOut.ran /\ days >= 1)
     => priceOut.emitted

\* C10 as amended: a document the validator passes is priced unless its
\* service is storage or cloudrun, which the validator has a schema for
\* and the pricing has no formula for: those the pricing refuses.
C10_PassedIsPricedUnlessValidatedOnly ==
  (valOut.ran /\ valOut.report.passed /\ priceOut.ran /\ days >= 1) =>
     /\ TheService \notin ValidatedOnly => (priceOut.emitted /\ priceOut.exit = 0)
     /\ TheService \in ValidatedOnly =>
          /\ ~priceOut.emitted
          /\ priceOut.stderr = "ERROR: Cost calculation not implemented for service"

C10_Witness ==
  /\ valOut.ran
  /\ valOut.report.passed
  /\ priceOut.emitted
  /\ days >= 1
  /\ Breakdown.total_cost > 0

====
